---- MODULE Spec2Model ----
(***************************************************************************)
(* Model of apel_report.py: the GRACC-based APEL reporting script.         *)
(*                                                                         *)
(* Spec       : one run of main() after the query returned: header, the    *)
(*              aggregation walk (one add_record per step), the emission   *)
(*              loop (one print_rk_recr per step) and the final message.   *)
(* SpecAdder  : record_adder applied to three Records in every order and   *)
(*              grouping.                                                  *)
(* SpecNF     : norm_factor / add_record applied to one leaf bucket.       *)
(* SpecAlias  : the site aliasing of add_record applied twice.             *)
(*                                                                         *)
(* Python floats are modelled as exact rationals [n, d] in lowest terms,   *)
(* int() as truncation toward zero.                                        *)
(***************************************************************************)
EXTENDS Integers, Sequences, FiniteSets, TLC

VARIABLES
    aggs,                \* resp.aggregations: the nested terms aggregation
    nf_table,            \* module global nf_table
    year, month,         \* main()'s year, month
    pc,                  \* position in main()
    todo,                \* add_record calls the walk has still to make
    added,               \* add_record calls made so far
    recs,                \* the accumulator: RecordKey -> Record
    items,               \* sorted(recs.items()) of the emission loop
    pi,                  \* index of the next item to print
    resource_group_map,  \* module global resource_group_map (None at start)
    httpGets,            \* number of requests.get calls issued
    resp_status,         \* resp.status_code of the last GET (None before)
    calls,               \* returned get_hs23_portion calls: [resource_group, ret]
    out,                 \* content of the output file
    wrote,               \* "wrote: ..." printed on stdout
    args,                \* inputs of the function under check (function specs)
    result               \* its results

vars == <<aggs, nf_table, year, month, pc, todo, added, recs, items, pi,
          resource_group_map, httpGets, resp_status, calls, out, wrote,
          args, result>>

\* Python's None; a value v that may be None is held as <<v>>
None == <<>>
Some(v) == <<v>>

-----------------------------------------------------------------------------
(* Bounds of the model *)

MaxBuckets == 2      \* site-level buckets in the aggregation
MaxSub == 2          \* SiteName sub-buckets of a '__MISSING__' bucket
MaxResources == 2    \* resources of a resource group in the Topology reply
MaxNF == 2           \* NormalFactor sub-buckets of a leaf (function specs)

-----------------------------------------------------------------------------
(* Rationals standing for Python floats *)

RECURSIVE GCD(_, _)
GCD(a, b) == IF b = 0 THEN a ELSE GCD(b, a % b)

Abs(x) == IF x < 0 THEN -x ELSE x

Rat(n, d) ==
    LET s == IF d < 0 THEN -1 ELSE 1
        g == GCD(Abs(n), Abs(d))
    IN  [n |-> (s * n) \div g, d |-> (s * d) \div g]

RatOf(i) == [n |-> i, d |-> 1]
RatAdd(a, b) == Rat(a.n * b.d + b.n * a.d, a.d * b.d)
RatSub(a, b) == Rat(a.n * b.d - b.n * a.d, a.d * b.d)
RatMul(a, b) == Rat(a.n * b.n, a.d * b.d)
RatDivInt(a, k) == Rat(a.n, a.d * k)
RatLt(a, b) == a.n * b.d < b.n * a.d
RatLe(a, b) == a.n * b.d <= b.n * a.d
RatAbs(a) == [n |-> Abs(a.n), d |-> a.d]
RatMin(a, b) == IF RatLt(b, a) THEN b ELSE a
RatMax(a, b) == IF RatLt(a, b) THEN b ELSE a

\* Python int(x) of a float: truncation toward zero
int(x) == IF x.n >= 0 THEN x.n \div x.d ELSE -((-x.n) \div x.d)

RECURSIVE RatSum(_)
RatSum(s) == IF s = <<>> THEN RatOf(0) ELSE RatAdd(Head(s), RatSum(Tail(s)))

\* statistics.mean of a non-empty list
mean(s) == RatDivInt(RatSum(s), Len(s))

\* math.isclose(a, b) with the defaults rel_tol = 1e-09, abs_tol = 0.0:
\*   abs(a - b) <= max(rel_tol * max(abs(a), abs(b)), abs_tol)
\* For x = abs(a - b) > 0 and m = max(abs(a), abs(b)) this is 1e9 <= m / x,
\* decided on the integer quotient.
RelTolInv == 1000000000

isclose(a, b) ==
    LET x == RatAbs(RatSub(a, b))
        m == RatMax(RatAbs(a), RatAbs(b))
    IN  x.n = 0 \/ (m.n * x.d) \div (x.n * m.d) >= RelTolInv

Min2(a, b) == IF b < a THEN b ELSE a
Max2(a, b) == IF a < b THEN b ELSE a

-----------------------------------------------------------------------------
(* Python's ordering of the strings the model uses (code point order) *)

StrOrder ==
    << "/CN=user1", "Crane", "MIT_CMS", "MIT_LHCb", "N/A", "Nebraska",
       "Sandhills", "Tusker", "UCSD", "__MISSING__",
       "alice", "atlas", "belle", "cms", "enmr.eu", "lhcb" >>

StrRank(s) == CHOOSE i \in 1..Len(StrOrder) : StrOrder[i] = s
StrLess(a, b) == StrRank(a) < StrRank(b)

RECURSIVE Concat(_)
Concat(ss) == IF ss = <<>> THEN <<>> ELSE Head(ss) \o Concat(Tail(ss))

-----------------------------------------------------------------------------
(* Module constants *)

vo_list == {"atlas", "alice", "belle", "cms", "enmr.eu", "lhcb"}
MISSING == "__MISSING__"

fixed_header == "APEL-normalised-summary-message: v0.4"
fixed_separator == "%%"
fixed_infrastructure == "grid"
fixed_nodecount == 1
fixed_normalizationfactor == 12

nf_max == 200
nf_default == 12

SecondsPerDay == 86400
MsPerSecond == 1000

-----------------------------------------------------------------------------
(* get_hs23_portion *)

\* float(s) of a decimal string such as "100" or "0.4", given as the sequence
\* of its characters
DigitVal(c) == CHOOSE v \in 0..9 : ToString(v) = c

RECURSIVE Pow10(_)
Pow10(k) == IF k = 0 THEN 1 ELSE 10 * Pow10(k - 1)

RECURSIVE DigitsVal(_)
DigitsVal(s) ==
    IF s = <<>> THEN 0
    ELSE 10 * DigitsVal(SubSeq(s, 1, Len(s) - 1)) + DigitVal(s[Len(s)])

float(s) ==
    LET dots == {i \in 1..Len(s) : s[i] = "."}
    IN  IF dots = {} THEN RatOf(DigitsVal(s))
        ELSE LET i == CHOOSE j \in dots : TRUE
                 frac == SubSeq(s, i + 1, Len(s))
             IN  RatAdd(RatOf(DigitsVal(SubSeq(s, 1, i - 1))),
                        Rat(DigitsVal(frac), Pow10(Len(frac))))

\* the list hep_spec_percentages of one resource group
hep_spec_percentages(resources) ==
    LET has == SelectSeq(resources,
                 LAMBDA r : "HEPScore23Percentage" \in DOMAIN r.WLCGInformation)
    IN  [i \in 1..Len(has) |-> float(has[i].WLCGInformation.HEPScore23Percentage)]

\* the map built from raw_json: one entry per resource group of the reply
parse_resource_groups(raw_json) ==
    [name \in DOMAIN raw_json |->
        LET pcts == hep_spec_percentages(raw_json[name].Resources.Resource)
        IN  IF Len(pcts) > 0 THEN mean(pcts) ELSE RatOf(0)]

\* resource_group_map.get(resource_group, 0.0)
map_get(rgm, resource_group) ==
    IF resource_group \in DOMAIN rgm THEN rgm[resource_group] ELSE RatOf(0)

\* get_hs23_portion without "global resource_group_map": the map is built and
\* used but the global stays None
get_hs23_portion_nomemo(resource_group, rgm, resp) ==
    IF resp.status_code # 200
    THEN [raised |-> TRUE, resource_group_map |-> rgm, ret |-> RatOf(0),
          gets |-> 1, status |-> Some(resp.status_code)]
    ELSE [raised |-> FALSE, resource_group_map |-> rgm,
          ret |-> map_get(parse_resource_groups(resp.json), resource_group),
          gets |-> 1, status |-> Some(resp.status_code)]

\* get_hs23_portion with "return 0.0" for a status other than 200
get_hs23_portion_return0(resource_group, rgm, resp) ==
    IF rgm = None
    THEN IF resp.status_code # 200
         THEN [raised |-> FALSE, resource_group_map |-> rgm, ret |-> RatOf(0),
               gets |-> 1, status |-> Some(resp.status_code)]
         ELSE LET m == parse_resource_groups(resp.json)
              IN  [raised |-> FALSE, resource_group_map |-> Some(m),
                   ret |-> map_get(m, resource_group),
                   gets |-> 1, status |-> Some(resp.status_code)]
    ELSE [raised |-> FALSE, resource_group_map |-> rgm,
          ret |-> map_get(rgm[1], resource_group), gets |-> 0, status |-> None]

\* get_hs23_portion(resource_group) with the global rgm and the reply resp the
\* Topology service gives if asked.  Result: raised (the exception; ret is
\* then meaningless), the new value of the global, the value returned, the
\* number of GETs issued and the status code seen by this call.
get_hs23_portion(resource_group, rgm, resp) ==
    IF rgm = None
    THEN IF resp.status_code # 200
         THEN [raised |-> TRUE, resource_group_map |-> rgm, ret |-> RatOf(0),
               gets |-> 1, status |-> Some(resp.status_code)]
         ELSE LET m == parse_resource_groups(resp.json)
              IN  [raised |-> FALSE, resource_group_map |-> Some(m),
                   ret |-> map_get(m, resource_group),
                   gets |-> 1, status |-> Some(resp.status_code)]
    ELSE [raised |-> FALSE, resource_group_map |-> rgm,
          ret |-> map_get(rgm[1], resource_group), gets |-> 0, status |-> None]

-----------------------------------------------------------------------------
(* norm_factor, bkt_record, record_adder *)

\* norm_factor keeping the values b.key >= 0
norm_factor_nonneg(bkt, site) ==
    LET pos == SelectSeq(bkt.NormalFactor, LAMBDA b : RatLe(RatOf(0), b.key))
        nf_values == [i \in 1..Len(pos) |-> pos[i].key]
        nf == IF Len(nf_values) = 0 THEN RatOf(nf_default)
              ELSE IF Len(nf_values) = 1 THEN nf_values[1]
              ELSE RatDivInt(RatSum(nf_values), Len(nf_values))
    IN  IF RatLe(RatOf(nf_max), nf)
        THEN IF site \in DOMAIN nf_table THEN nf_table[site]
             ELSE RatOf(nf_default)
        ELSE nf

\* norm_factor with the test nf > nf_max
norm_factor_gt(bkt, site) ==
    LET pos == SelectSeq(bkt.NormalFactor, LAMBDA b : RatLt(RatOf(0), b.key))
        nf_values == [i \in 1..Len(pos) |-> pos[i].key]
        nf == IF Len(nf_values) = 0 THEN RatOf(nf_default)
              ELSE IF Len(nf_values) = 1 THEN nf_values[1]
              ELSE RatDivInt(RatSum(nf_values), Len(nf_values))
    IN  IF RatLt(RatOf(nf_max), nf)
        THEN IF site \in DOMAIN nf_table THEN nf_table[site]
             ELSE RatOf(nf_default)
        ELSE nf

norm_factor(bkt, site) ==
    LET pos == SelectSeq(bkt.NormalFactor, LAMBDA b : RatLt(RatOf(0), b.key))
        nf_values == [i \in 1..Len(pos) |-> pos[i].key]
        nf == IF Len(nf_values) = 0 THEN RatOf(nf_default)
              ELSE IF Len(nf_values) = 1 THEN nf_values[1]
              ELSE RatDivInt(RatSum(nf_values), Len(nf_values))
    IN  IF RatLe(RatOf(nf_max), nf)
        THEN IF site \in DOMAIN nf_table THEN nf_table[site]
             ELSE RatOf(nf_default)
        ELSE nf

Record(mintime, maxtime, walldur, cpudur, nf, njobs) ==
    [mintime |-> mintime, maxtime |-> maxtime, walldur |-> walldur,
     cpudur |-> cpudur, nf |-> nf, njobs |-> njobs]

RecordKey(vo, site, cores, dn) ==
    [vo |-> vo, site |-> site, cores |-> cores, dn |-> dn]

bkt_record(bkt, site) ==
    LET mintime == int(RatDivInt(bkt.EarliestEndTime, MsPerSecond))
        maxtime == int(RatDivInt(bkt.LatestEndTime, MsPerSecond))
        walldur == int(bkt.WallDuration)
        cpudur == IF bkt.CpuDuration_user = RatOf(0)
                     /\ bkt.CpuDuration_system = RatOf(0)
                  THEN int(bkt.CpuDuration)
                  ELSE int(RatAdd(bkt.CpuDuration_user, bkt.CpuDuration_system))
        nf == norm_factor(bkt, site)
        njobs == int(bkt.NumberOfJobs)
    IN  Record(mintime, maxtime, walldur, cpudur, nf, njobs)

\* record_adder taking the factor of its second operand
record_adder_nf_of_b(a, b) ==
    [mintime |-> Min2(a.mintime, b.mintime),
     maxtime |-> Max2(a.maxtime, b.maxtime),
     walldur |-> a.walldur + b.walldur,
     cpudur |-> a.cpudur + b.cpudur,
     nf |-> b.nf,
     njobs |-> a.njobs + b.njobs]

record_adder(a, b) ==
    Record(Min2(a.mintime, b.mintime),
           Max2(a.maxtime, b.maxtime),
           a.walldur + b.walldur,
           a.cpudur + b.cpudur,
           RatMin(a.nf, b.nf),
           a.njobs + b.njobs)

\* autodict.__add__(self, other)
autodict_add(self, other) == other

-----------------------------------------------------------------------------
(* Site aliasing and add_record *)

\* a site_map whose value for Crane is itself renamed
site_map_chained ==
    [s \in {"Crane", "Sandhills", "Tusker"} |->
        IF s = "Crane" THEN "Sandhills" ELSE "Nebraska"]

site_map ==
    [s \in {"Crane", "Sandhills", "Tusker"} |-> "Nebraska"]

site_vo_map ==
    [k \in {<<"MIT_CMS", "lhcb">>} |-> "MIT_LHCb"]

\* lines 215-219 of add_record: the site the key and the record are built with
alias_site(site, vo) ==
    LET s1 == IF site \in DOMAIN site_map THEN site_map[site] ELSE site
    IN  IF <<s1, vo>> \in DOMAIN site_vo_map THEN site_vo_map[<<s1, vo>>] ELSE s1

\* the accumulator autodict() with no key
EmptyRecs == <<>>

\* recs[rk] = rec: the record is stored, not added
recs_iadd_overwrite(rs, rk, rec) ==
    [k \in DOMAIN rs \cup {rk} |-> IF k = rk THEN rec ELSE rs[k]]

\* recs[rk] += rec
recs_iadd(rs, rk, rec) ==
    [k \in DOMAIN rs \cup {rk} |->
        IF k = rk
        THEN IF rk \in DOMAIN rs THEN record_adder(rs[rk], rec)
             ELSE autodict_add(EmptyRecs, rec)
        ELSE rs[k]]

add_record(rs, vo, site, cores, dn, bkt) ==
    LET site2 == alias_site(site, vo)
        rk == RecordKey(vo, site2, cores, dn)
        rec == bkt_record(bkt, site2)
    IN  recs_iadd(rs, rk, rec)

-----------------------------------------------------------------------------
(* print_rk_recr *)

\* "%02d" % month
fmt02d(m) == IF m < 10 THEN "0" \o ToString(m) ELSE ToString(m)

\* the submit hosts without the isclose test
submit_hosts_always_both(hs23_portion) ==
    <<"hepspec-hosts", "hepscore-hosts">>

\* lines 238-242: the submit hosts of one record
submit_hosts_of(hs23_portion) ==
    IF ~isclose(hs23_portion, RatOf(0))
    THEN <<"hepspec-hosts", "hepscore-hosts">>
    ELSE <<"hepspec-hosts">>

\* the lines written for one submit host, up to the separator; the value
\* "{metric: n}" of a normalised duration is held as [metric, value]
line_group(year_, month_, rk, rec, dn, submit_hosts, submit_host, hs23_portion) ==
    LET portion == IF submit_host = 0 THEN RatSub(RatOf(1), hs23_portion)
                   ELSE hs23_portion
        metric_name == IF submit_host = 0 THEN "hepspec" ELSE "HEPscore23"
        norm(dur) == int(RatMul(RatMul(RatOf(dur), rec.nf), portion))
    IN  [Site |-> rk.site,
         SubmitHost |-> submit_hosts[submit_host + 1],
         VO |-> rk.vo,
         EarliestEndTime |-> rec.mintime,
         LatestEndTime |-> rec.maxtime + SecondsPerDay - 1,
         Month |-> fmt02d(month_),
         Year |-> year_,
         Infrastructure |-> fixed_infrastructure,
         GlobalUserName |-> dn,
         Processors |-> rk.cores,
         NodeCount |-> fixed_nodecount,
         WallDuration |-> int(RatMul(RatOf(rec.walldur), portion)),
         CpuDuration |-> int(RatMul(RatOf(rec.cpudur), portion)),
         NormalisedWallDuration |->
             [metric |-> metric_name, value |-> norm(rec.walldur)],
         NormalisedCpuDuration |->
             [metric |-> metric_name, value |-> norm(rec.cpudur)],
         NumberOfJobs |-> int(RatMul(RatOf(rec.njobs), portion)),
         Separator |-> fixed_separator]

\* print_rk_recr once get_hs23_portion(rk.site) has returned hs23_portion:
\* the line groups it writes to the output file
print_rk_recr(year_, month_, rk, rec, hs23_portion) ==
    LET dn == IF rk.dn = "N/A" THEN "generic " \o rk.vo \o " user" ELSE rk.dn
        submit_hosts == submit_hosts_of(hs23_portion)
    IN  [i \in 1..Len(submit_hosts) |->
            line_group(year_, month_, rk, rec, dn, submit_hosts, i - 1,
                       hs23_portion)]

-----------------------------------------------------------------------------
(* The aggregation walk of main *)

\* sorted_buckets(agg): the buckets of one level in the order of their keys,
\* which are distinct; the i-th is the one with i - 1 smaller keys.
\* For the string keys of VO, DN, Site and SiteName:
sorted_buckets(buckets) ==
    [i \in 1..Cardinality(buckets) |->
        CHOOSE x \in buckets :
            Cardinality({y \in buckets : StrLess(y.key, x.key)}) = i - 1]

\* for the integer keys of Cores:
sorted_buckets_int(buckets) ==
    [i \in 1..Cardinality(buckets) |->
        CHOOSE x \in buckets :
            Cardinality({y \in buckets : y.key < x.key}) = i - 1]

\* one call add_record(recs, vo, site, cores, dn, bkt); level names the
\* aggregation the bucket bkt belongs to
Call(vo, site, cores, dn, bkt, level) ==
    [vo |-> vo, site |-> site, cores |-> cores, dn |-> dn, bkt |-> bkt,
     level |-> level]

\* the walk without its else: a '__MISSING__' bucket is added as well
walk_site_noelse(cores, vo, dn, site_bkt) ==
    LET site == site_bkt.key
        sn == sorted_buckets(site_bkt.SiteName)
        subs == IF site = MISSING
                THEN [i \in 1..Len(sn) |->
                        Call(vo, sn[i].key, cores, dn, sn[i], "SiteName")]
                ELSE <<>>
    IN  subs \o <<Call(vo, site, cores, dn, site_bkt, "Site")>>

\* lines 319-326: the calls made for one bucket of the Site aggregation
walk_site(cores, vo, dn, site_bkt) ==
    LET site == site_bkt.key
    IN  IF site = MISSING
        THEN LET sn == sorted_buckets(site_bkt.SiteName)
             IN  [i \in 1..Len(sn) |->
                     Call(vo, sn[i].key, cores, dn, sn[i], "SiteName")]
        ELSE <<Call(vo, site, cores, dn, site_bkt, "Site")>>

walk_dn(cores, vo, dn_bkt) ==
    LET sb == sorted_buckets(dn_bkt.Site)
    IN  Concat([i \in 1..Len(sb) |-> walk_site(cores, vo, dn_bkt.key, sb[i])])

walk_vo(cores, vo_bkt) ==
    LET db == sorted_buckets(vo_bkt.DN)
    IN  Concat([i \in 1..Len(db) |-> walk_dn(cores, vo_bkt.key, db[i])])

walk_cores(cores_bkt) ==
    LET vb == sorted_buckets(cores_bkt.VO)
    IN  Concat([i \in 1..Len(vb) |-> walk_vo(cores_bkt.key, vb[i])])

\* lines 312-326: the add_record calls of the walk, in order
main_walk(ag) ==
    LET cb == sorted_buckets_int(ag.Cores)
    IN  Concat([i \in 1..Len(cb) |-> walk_cores(cb[i])])

\* the tuple order of RecordKey (vo, site, cores, dn)
RecordKeyLess(a, b) ==
    \/ StrLess(a.vo, b.vo)
    \/ a.vo = b.vo /\ StrLess(a.site, b.site)
    \/ a.vo = b.vo /\ a.site = b.site /\ a.cores < b.cores
    \/ a.vo = b.vo /\ a.site = b.site /\ a.cores = b.cores
       /\ StrLess(a.dn, b.dn)

\* sorted(recs.items()): pairs <<rk, rec>>; the keys are distinct
sorted_items(rs) ==
    LET ks == [i \in 1..Cardinality(DOMAIN rs) |->
                 CHOOSE x \in DOMAIN rs :
                     Cardinality({y \in DOMAIN rs : RecordKeyLess(y, x)}) = i - 1]
    IN  [i \in 1..Len(ks) |-> <<ks[i], rs[ks[i]]>>]

-----------------------------------------------------------------------------
(* Inputs: the aggregation the query returns *)

Range(f) == {f[i] : i \in DOMAIN f}

\* the sequences over S of length at most n
SeqsUpTo(S, n) == UNION {[1..k -> S] : k \in 0..n}

\* the sets of at most n elements of S
SetsUpTo(S, n) == {Range(f) : f \in SeqsUpTo(S, n)}

\* the metrics add_bkt_metrics attaches to a bucket
Metrics(nfs, sys, usr, cpu, wall, njobs, earliest, latest) ==
    [NormalFactor |-> [i \in 1..Len(nfs) |-> [key |-> nfs[i]]],
     CpuDuration_system |-> sys,
     CpuDuration_user |-> usr,
     CpuDuration |-> cpu,
     WallDuration |-> wall,
     NumberOfJobs |-> njobs,
     EarliestEndTime |-> earliest,
     LatestEndTime |-> latest]

\* metrics of leaf buckets: M1 has the combined CPU field only; M2 has user
\* and system CPU time, fractional sums and another combined value
M1 ==
    Metrics(<<RatOf(8)>>, RatOf(0), RatOf(0), RatOf(200), RatOf(100),
            RatOf(1), RatOf(1500), RatOf(2999))
M2 ==
    Metrics(<<RatOf(16)>>, RatOf(40), Rat(121, 2), RatOf(999), Rat(103, 2),
            RatOf(1), RatOf(1000), RatOf(5999))

\* metrics of a '__MISSING__' bucket itself
MissingMetrics ==
    Metrics(<<RatOf(12)>>, RatOf(0), RatOf(0), RatOf(1000), RatOf(1000),
            RatOf(10), RatOf(500), RatOf(9000))

Bucket(key, m) == [key |-> key] @@ m

\* buckets of the SiteName aggregation
SiteNameBuckets ==
    { Bucket("Crane", M1), Bucket("MIT_CMS", M2), Bucket("Sandhills", M1) }

\* the SiteName aggregation under one Site bucket: distinct keys
SiteNameAggs ==
    {S \in SetsUpTo(SiteNameBuckets, MaxSub) : \A a, b \in S : a.key = b.key => a = b}

\* buckets of the Site aggregation with a site: metrics, and a SiteName
\* aggregation of their own, as every Site bucket has one
LeafBuckets ==
    {b @@ [SiteName |-> {Bucket("UCSD", M2)}] :
        b \in { Bucket("Crane", M1), Bucket("Sandhills", M2),
                Bucket("MIT_CMS", M1) }}

\* buckets of the Site aggregation: those with a site and '__MISSING__' ones
SiteBuckets ==
    LeafBuckets
    \cup {Bucket(MISSING, MissingMetrics) @@ [SiteName |-> sn] : sn \in SiteNameAggs}

\* cores, vo, dn of the buckets above the Site aggregation
Prefixes ==
    { <<1, "cms", "/CN=user1">>, <<8, "cms", "N/A">>, <<8, "lhcb", "N/A">> }

Rows == {[cores |-> p[1], vo |-> p[2], dn |-> p[3], bkt |-> b] :
            p \in Prefixes, b \in SiteBuckets}

SamePath(a, b) ==
    a.cores = b.cores /\ a.vo = b.vo /\ a.dn = b.dn /\ a.bkt.key = b.bkt.key

\* a terms aggregation has one bucket per key
RowSets ==
    {S \in SetsUpTo(Rows, MaxBuckets) : \A a, b \in S : SamePath(a, b) => a = b}

\* the nested aggregation Cores > VO > DN > Site (> SiteName) of a set of rows
Tree(rows) ==
    [Cores |->
      {[key |-> c,
        VO |->
         {[key |-> v,
           DN |->
            {[key |-> d,
              Site |-> {r.bkt : r \in {x \in rows :
                           x.cores = c /\ x.vo = v /\ x.dn = d}}]
             : d \in {x.dn : x \in {y \in rows : y.cores = c /\ y.vo = v}}}]
          : v \in {x.vo : x \in {y \in rows : y.cores = c}}}]
       : c \in {x.cores : x \in rows}}]

\* the table read from the normal_hepspec file
MainNfTable == ("Nebraska" :> Rat(21, 2)) @@ ("Crane" :> RatOf(9))

YearMonths == { <<2024, 3>> }

-----------------------------------------------------------------------------
(* Inputs: the reply of the Topology service *)

ReplyGroups == {"Nebraska"}

\* HEPScore23Percentage strings: "0.4" and "100"
PctStrings == { <<"0", ".", "4">>, <<"1", "0", "0">> }

Resources ==
    {[WLCGInformation |-> [KSI2KMin |-> 0]]}
    \cup {[WLCGInformation |-> [KSI2KMin |-> 0, HEPScore23Percentage |-> s]] :
             s \in PctStrings}

RawJsons ==
    UNION {[D -> {[Resources |-> [Resource |-> rs]] :
                     rs \in SeqsUpTo(Resources, MaxResources)}] :
           D \in SUBSET ReplyGroups}

Replies ==
    {[status_code |-> 200, json |-> j] : j \in RawJsons}
    \cup {[status_code |-> 500, json |-> <<>>]}

\* stands for the reply when no request is made
NoReply == [status_code |-> 0, json |-> <<>>]

-----------------------------------------------------------------------------
(* The run of main *)

FnIdle == args = <<>> /\ result = <<>>

Init ==
    /\ \E rows \in RowSets : aggs = Tree(rows)
    /\ nf_table = MainNfTable
    /\ \E ym \in YearMonths : year = ym[1] /\ month = ym[2]
    /\ pc = "header"
    /\ todo = main_walk(aggs)
    /\ added = <<>>
    /\ recs = EmptyRecs
    /\ items = <<>>
    /\ pi = 1
    /\ resource_group_map = None
    /\ httpGets = 0
    /\ resp_status = None
    /\ calls = <<>>
    /\ out = <<>>
    /\ wrote = FALSE
    /\ FnIdle

\* print_header(outfile)
PrintHeader ==
    /\ pc = "header"
    /\ out' = Append(out, [Header |-> fixed_header])
    /\ pc' = "walk"
    /\ UNCHANGED <<aggs, nf_table, year, month, todo, added, recs, items, pi,
                   resource_group_map, httpGets, resp_status, calls, wrote,
                   args, result>>

\* one iteration of the innermost loop of the walk: one add_record call
AddRecord ==
    /\ pc = "walk"
    /\ todo # <<>>
    /\ LET c == Head(todo)
       IN  /\ recs' = add_record(recs, c.vo, c.site, c.cores, c.dn, c.bkt)
           /\ added' = Append(added, c)
    /\ todo' = Tail(todo)
    /\ UNCHANGED <<aggs, nf_table, year, month, pc, items, pi,
                   resource_group_map, httpGets, resp_status, calls, out, wrote,
                   args, result>>

\* line 328: the walk is over, sorted(recs.items()) is built
SortItems ==
    /\ pc = "walk"
    /\ todo = <<>>
    /\ items' = sorted_items(recs)
    /\ pi' = 1
    /\ pc' = "print"
    /\ UNCHANGED <<aggs, nf_table, year, month, todo, added, recs,
                   resource_group_map, httpGets, resp_status, calls, out, wrote,
                   args, result>>

\* line 329: print_rk_recr(year, month, rk, rec, outfile) for the next item;
\* an exception of get_hs23_portion ends the run
PrintRkRecr ==
    /\ pc = "print"
    /\ pi <= Len(items)
    /\ \E resp \in (IF resource_group_map = None THEN Replies ELSE {NoReply}) :
         LET rk == items[pi][1]
             rec == items[pi][2]
             r == get_hs23_portion(rk.site, resource_group_map, resp)
         IN  /\ resource_group_map' = r.resource_group_map
             /\ httpGets' = httpGets + r.gets
             /\ resp_status' = IF r.gets > 0 THEN r.status ELSE resp_status
             /\ IF r.raised
                THEN /\ pc' = "aborted"
                     /\ UNCHANGED <<calls, out, pi>>
                ELSE /\ calls' = Append(calls, [resource_group |-> rk.site,
                                                ret |-> r.ret])
                     /\ out' = out \o print_rk_recr(year, month, rk, rec, r.ret)
                     /\ pi' = pi + 1
                     /\ pc' = pc
    /\ UNCHANGED <<aggs, nf_table, year, month, todo, added, recs, items, wrote,
                   args, result>>

\* line 331: print("wrote: %s" % outfile_name)
PrintWrote ==
    /\ pc = "print"
    /\ pi > Len(items)
    /\ wrote' = TRUE
    /\ pc' = "done"
    /\ UNCHANGED <<aggs, nf_table, year, month, todo, added, recs, items, pi,
                   resource_group_map, httpGets, resp_status, calls, out,
                   args, result>>

Next ==
    \/ PrintHeader
    \/ AddRecord
    \/ SortItems
    \/ PrintRkRecr
    \/ PrintWrote

Spec == Init /\ [][Next]_vars

-----------------------------------------------------------------------------
(* Function specifications: the state of main is idle *)

MainIdle ==
    /\ aggs = Tree({})
    /\ year = 2024 /\ month = 3
    /\ todo = <<>>
    /\ added = <<>>
    /\ recs = EmptyRecs
    /\ items = <<>>
    /\ pi = 1
    /\ resource_group_map = None
    /\ httpGets = 0
    /\ resp_status = None
    /\ calls = <<>>
    /\ out = <<>>
    /\ wrote = FALSE

MainVars == <<aggs, nf_table, year, month, todo, added, recs, items, pi,
              resource_group_map, httpGets, resp_status, calls, out, wrote>>

(* record_adder on three Records *)

AdderRecords ==
    {Record(mt, xt, d[1], d[2], nf, d[3]) :
        mt \in {1, 2}, xt \in {2, 5},
        d \in { <<100, 200, 1>>, <<50, 100, 1>> },
        nf \in {RatOf(8), RatOf(16), Rat(21, 2)}}

AdderKey == RecordKey("cms", "Nebraska", 8, "N/A")

\* the six orders of three operands
Orders3 ==
    {o \in [1..3 -> {"a", "b", "c"}] : \A i, j \in 1..3 : o[i] = o[j] => i = j}

InitAdder ==
    /\ MainIdle
    /\ nf_table = MainNfTable
    /\ pc = "call"
    /\ \E x, y, z \in AdderRecords : args = [a |-> x, b |-> y, c |-> z]
    /\ result = <<>>

\* the three Records added with the + of Record, in any order and grouping
AdderFold ==
    /\ pc = "call"
    /\ \E o \in Orders3, left \in BOOLEAN :
         LET x == args[o[1]]
             y == args[o[2]]
             z == args[o[3]]
         IN  result' = IF left
                       THEN <<record_adder(record_adder(x, y), z)>>
                       ELSE <<record_adder(x, record_adder(y, z))>>
    /\ pc' = "ret"
    /\ UNCHANGED <<MainVars, args>>

\* the three Records accumulated under one key by recs[rk] += rec, in any order
AdderAccumulate ==
    /\ pc = "call"
    /\ \E o \in Orders3 :
         LET r1 == recs_iadd(EmptyRecs, AdderKey, args[o[1]])
             r2 == recs_iadd(r1, AdderKey, args[o[2]])
             r3 == recs_iadd(r2, AdderKey, args[o[3]])
         IN  result' = <<r3[AdderKey]>>
    /\ pc' = "ret"
    /\ UNCHANGED <<MainVars, args>>

NextAdder ==
    \/ AdderFold
    \/ AdderAccumulate

SpecAdder == InitAdder /\ [][NextAdder]_vars

(* norm_factor and add_record on one leaf bucket *)

NFValues ==
    { RatOf(-1), RatOf(0), RatOf(8), Rat(21, 2), RatOf(199), RatOf(200),
      RatOf(250) }

NFSites == {"Crane", "Nebraska", "MIT_CMS", "MIT_LHCb", "UCSD"}
NFVos == {"cms", "lhcb"}

NfTables ==
    { <<>>,
      MainNfTable,
      ("MIT_LHCb" :> Rat(989, 100)) @@ ("MIT_CMS" :> RatOf(11)) }

NFBuckets ==
    {Bucket(site,
            Metrics(nfs, RatOf(0), RatOf(0), RatOf(200), RatOf(100), RatOf(1),
                    RatOf(1500), RatOf(2999))) :
        site \in NFSites, nfs \in SeqsUpTo(NFValues, MaxNF)}

InitNF ==
    /\ MainIdle
    /\ nf_table \in NfTables
    /\ pc = "call"
    /\ \E b \in NFBuckets, vo \in NFVos : args = [vo |-> vo, bkt |-> b]
    /\ result = <<>>

\* norm_factor(bkt, site) with the bucket's own key as site
NormFactorCall ==
    /\ pc = "call"
    /\ result' = <<norm_factor(args.bkt, args.bkt.key)>>
    /\ pc' = "ret_nf"
    /\ UNCHANGED <<MainVars, args>>

\* add_record(recs, vo, site, cores, dn, bkt) on an empty accumulator
AddRecordCall ==
    /\ pc = "call"
    /\ result' = <<add_record(EmptyRecs, args.vo, args.bkt.key, 8, "N/A",
                              args.bkt)>>
    /\ pc' = "ret_add"
    /\ UNCHANGED <<MainVars, args>>

NextNF ==
    \/ NormFactorCall
    \/ AddRecordCall

SpecNF == InitNF /\ [][NextNF]_vars

(* the site aliasing of add_record, applied to its own result *)

AliasSites ==
    {"Crane", "Sandhills", "Tusker", "Nebraska", "MIT_CMS", "MIT_LHCb", "UCSD",
     MISSING}

InitAlias ==
    /\ MainIdle
    /\ nf_table = MainNfTable
    /\ pc = "call"
    /\ \E site \in AliasSites, vo \in vo_list : args = [site |-> site, vo |-> vo]
    /\ result = <<>>

AliasOnce ==
    /\ pc = "call"
    /\ result' = <<alias_site(args.site, args.vo)>>
    /\ pc' = "once"
    /\ UNCHANGED <<MainVars, args>>

AliasTwice ==
    /\ pc = "once"
    /\ result' = Append(result, alias_site(result[1], args.vo))
    /\ pc' = "twice"
    /\ UNCHANGED <<MainVars, args>>

NextAlias ==
    \/ AliasOnce
    \/ AliasTwice

SpecAlias == InitAlias /\ [][NextAlias]_vars

-----------------------------------------------------------------------------
(* Vocabulary of the properties *)

RECURSIVE SumSeq(_)
SumSeq(s) == IF s = <<>> THEN 0 ELSE Head(s) + SumSeq(Tail(s))

RECURSIVE SumSet(_)
SumSet(S) ==
    IF S = {} THEN 0
    ELSE LET x == CHOOSE y \in S : TRUE IN x[2] + SumSet(S \ {x})

\* the line groups written so far (the header line is the first element)
Groups == IF Len(out) = 0 THEN <<>> ELSE Tail(out)

\* the canonical site of a leaf, stated from the two rename tables
CanonicalSite(site, vo) ==
    IF site \in {"Crane", "Sandhills", "Tusker"} THEN "Nebraska"
    ELSE IF site = "MIT_CMS" /\ vo = "lhcb" THEN "MIT_LHCb"
    ELSE site

CanonicalKey(c) ==
    [vo |-> c.vo, site |-> CanonicalSite(c.site, c.vo), cores |-> c.cores,
     dn |-> c.dn]

\* the leaves added so far whose canonical key is k
LeavesOf(k) == SelectSeq(added, LAMBDA c : CanonicalKey(c) = k)

LeafRecord(c) == bkt_record(c.bkt, CanonicalSite(c.site, c.vo))

UserName(k) == IF k.dn = "N/A" THEN "generic " \o k.vo \o " user" ELSE k.dn

\* the line groups written for key k
GroupsOf(k) ==
    SelectSeq(Groups, LAMBDA g : /\ g.VO = k.vo
                                 /\ g.Site = k.site
                                 /\ g.Processors = k.cores
                                 /\ g.GlobalUserName = UserName(k))

\* the keys print_rk_recr has returned for
Printed == {items[i][1] : i \in 1..Len(calls)}

-----------------------------------------------------------------------------
\* C1: the accumulator holds exactly one Record per distinct canonical
\* RecordKey (vo, aliased site, cores, dn) of the leaves added so far; its
\* walldur, cpudur and njobs are the sums over all leaves with that key; and
\* one output group (one print_rk_recr emission, headed by its single
\* 'hepspec-hosts' line group) is written per key, none for anything else.
C1_OneRecordPerKey ==
    /\ DOMAIN recs = {CanonicalKey(added[i]) : i \in 1..Len(added)}
    /\ \A k \in DOMAIN recs :
         LET ls == LeavesOf(k)
             rs == [i \in 1..Len(ls) |-> LeafRecord(ls[i])]
         IN  /\ recs[k].walldur = SumSeq([i \in 1..Len(rs) |-> rs[i].walldur])
             /\ recs[k].cpudur = SumSeq([i \in 1..Len(rs) |-> rs[i].cpudur])
             /\ recs[k].njobs = SumSeq([i \in 1..Len(rs) |-> rs[i].njobs])
    /\ \A k \in DOMAIN recs :
         LET heads == SelectSeq(GroupsOf(k),
                                LAMBDA g : g.SubmitHost = "hepspec-hosts")
         IN  Len(heads) = IF k \in Printed THEN 1 ELSE 0
    /\ \A i \in 1..Len(Groups) : \E k \in DOMAIN recs :
         /\ Groups[i].VO = k.vo
         /\ Groups[i].Site = k.site
         /\ Groups[i].Processors = k.cores
         /\ Groups[i].GlobalUserName = UserName(k)
    /\ pc = "done" => Printed = DOMAIN recs

\* two leaves with different sites were folded into one record, and the run
\* has written its output
C1_Witness ==
    /\ pc = "done"
    /\ \E i, j \in 1..Len(added) :
         /\ added[i].site = "Crane" /\ added[j].site = "Sandhills"
         /\ CanonicalKey(added[i]) = CanonicalKey(added[j])
         /\ recs[CanonicalKey(added[i])].walldur = 151
    /\ Cardinality(DOMAIN recs) = 1

-----------------------------------------------------------------------------
\* the add_record calls the aggregation asks for: one per Site bucket with a
\* site, under that site, and one per SiteName bucket of a '__MISSING__'
\* bucket, under the sub-bucket's name
ExpectedCalls ==
    UNION { UNION { UNION { UNION {
        IF s.key # MISSING
        THEN {Call(v.key, s.key, c.key, d.key, s, "Site")}
        ELSE {Call(v.key, n.key, c.key, d.key, n, "SiteName") : n \in s.SiteName}
      : s \in d.Site } : d \in v.DN } : v \in c.VO } : c \in aggs.Cores }

\* <<key, walldur + njobs>> of every record of the accumulator
RecTotals == {<<k, recs[k].walldur + recs[k].njobs>> : k \in DOMAIN recs}

\* <<call, walldur + njobs>> of every expected leaf
LeafTotals ==
    {<<c, LeafRecord(c).walldur + LeafRecord(c).njobs>> : c \in ExpectedCalls}

\* C10: every leaf contributes to the accumulator exactly once: a Site bucket
\* with a site is added once under its own key, a '__MISSING__' bucket is
\* never added itself and each of its SiteName buckets is added once under
\* its name, so the totals of the accumulator are those of the leaves alone.
C10_EveryLeafOnce ==
    /\ \A i, j \in 1..Len(added) : added[i] = added[j] => i = j
    /\ \A i \in 1..Len(added) :
         added[i] \in ExpectedCalls /\ added[i].site # MISSING
    /\ pc \in {"print", "done", "aborted"} =>
         /\ {added[i] : i \in 1..Len(added)} = ExpectedCalls
         /\ SumSet(RecTotals) = SumSet(LeafTotals)

\* the walk is over for an aggregation with a Site bucket that has a site
\* and a '__MISSING__' bucket with two SiteName buckets
C10_Witness ==
    /\ pc = "print"
    /\ \E i, j, k \in 1..Len(added) :
         /\ added[i].level = "Site"
         /\ added[j].level = "SiteName" /\ added[k].level = "SiteName"
         /\ j # k
         /\ added[j].cores = added[k].cores /\ added[j].vo = added[k].vo
         /\ added[i].cores = added[j].cores /\ added[i].vo = added[j].vo

-----------------------------------------------------------------------------
\* C6: after a successful first fetch the HTTP GET has been issued exactly
\* once in total; every call returned the cached map's entry for its resource
\* group, 0.0 for a group absent from the map, so that two calls with the
\* same resource group returned identical values.
C6_FetchOnceThenLookup ==
    /\ httpGets <= 1
    /\ resource_group_map # None => httpGets = 1 /\ resp_status = Some(200)
    /\ Len(calls) > 0 => resource_group_map # None
    /\ \A i \in 1..Len(calls) :
         LET m == resource_group_map[1]
             rg == calls[i].resource_group
         IN  calls[i].ret = IF rg \in DOMAIN m THEN m[rg] ELSE RatOf(0)
    /\ \A i, j \in 1..Len(calls) :
         calls[i].resource_group = calls[j].resource_group
            => calls[i].ret = calls[j].ret

\* three calls after one GET: two for the same cached resource group with a
\* non-zero portion, one for a group absent from the map
C6_Witness ==
    /\ httpGets = 1
    /\ \E i, j, k \in 1..Len(calls) :
         /\ i < j
         /\ calls[i].resource_group = calls[j].resource_group
         /\ calls[i].ret # RatOf(0)
         /\ calls[k].resource_group \notin DOMAIN resource_group_map[1]
         /\ calls[k].ret = RatOf(0)

-----------------------------------------------------------------------------
\* C9: a first fetch with a status other than 200 aborts the run: the map
\* stays None, no record line group is written, "wrote:" is not printed; and
\* no record line group is ever written before a successful fetch.
C9_FailedFetchAborts ==
    /\ (resp_status # None /\ resp_status # Some(200)) => pc = "aborted"
    /\ pc = "aborted" =>
         /\ resource_group_map = None
         /\ Len(Groups) = 0
         /\ Len(calls) = 0
         /\ ~wrote
    /\ Len(Groups) > 0 => resource_group_map # None /\ resp_status = Some(200)
    /\ wrote => pc = "done"

\* the fetch failed with two keys waiting to be printed
C9_Witness ==
    /\ pc = "aborted"
    /\ resp_status = Some(500)
    /\ httpGets = 1
    /\ Len(items) >= 2
    /\ Len(out) = 1

-----------------------------------------------------------------------------
\* every HEPScore23Percentage of every reply is a value between 0 and 100
RepliesWithinPercentRange ==
    \A rp \in Replies : \A g \in DOMAIN rp.json :
        \A i \in 1..Len(rp.json[g].Resources.Resource) :
            LET info == rp.json[g].Resources.Resource[i].WLCGInformation
            IN  "HEPScore23Percentage" \in DOMAIN info =>
                   /\ RatLe(RatOf(0), float(info.HEPScore23Percentage))
                   /\ RatLe(float(info.HEPScore23Percentage), RatOf(100))

\* C7: with every reported HEPScore23Percentage between 0 and 100,
\* get_hs23_portion returns a fraction in [0,1], and no emitted WallDuration,
\* CpuDuration or NumberOfJobs is negative or larger than the merged record's
\* total.
C7_PortionIsFraction ==
    RepliesWithinPercentRange =>
      /\ \A i \in 1..Len(calls) :
           RatLe(RatOf(0), calls[i].ret) /\ RatLe(calls[i].ret, RatOf(1))
      /\ \A k \in Printed : \A i \in 1..Len(GroupsOf(k)) :
           LET g == GroupsOf(k)[i]
           IN  /\ 0 <= g.WallDuration /\ g.WallDuration <= recs[k].walldur
               /\ 0 <= g.CpuDuration /\ g.CpuDuration <= recs[k].cpudur
               /\ 0 <= g.NumberOfJobs /\ g.NumberOfJobs <= recs[k].njobs

-----------------------------------------------------------------------------
\* C8: for every merged record print_rk_recr writes exactly one
\* 'hepspec-hosts' line group with the full wallDuration, cpuDuration and
\* jobCount when the site's hs23 portion p is 0, and otherwise exactly two,
\* 'hepspec-hosts' (metric 'hepspec', portion 1 - p) followed by
\* 'hepscore-hosts' (metric 'HEPscore23', portion p); in the two-line case
\* the two WallDuration values sum to at most the record's wallDuration and
\* each differs from its exact share by less than 1.
C8_OneOrTwoLineGroups ==
    \A i \in 1..Len(calls) :
        LET k == items[i][1]
            rec == items[i][2]
            p == calls[i].ret
            gs == GroupsOf(k)
        IN  IF p.n = 0
            THEN /\ Len(gs) = 1
                 /\ gs[1].SubmitHost = "hepspec-hosts"
                 /\ gs[1].NormalisedWallDuration.metric = "hepspec"
                 /\ gs[1].NormalisedCpuDuration.metric = "hepspec"
                 /\ gs[1].WallDuration = rec.walldur
                 /\ gs[1].CpuDuration = rec.cpudur
                 /\ gs[1].NumberOfJobs = rec.njobs
            ELSE /\ Len(gs) = 2
                 /\ gs[1].SubmitHost = "hepspec-hosts"
                 /\ gs[1].NormalisedWallDuration.metric = "hepspec"
                 /\ gs[1].NormalisedCpuDuration.metric = "hepspec"
                 /\ gs[2].SubmitHost = "hepscore-hosts"
                 /\ gs[2].NormalisedWallDuration.metric = "HEPscore23"
                 /\ gs[2].NormalisedCpuDuration.metric = "HEPscore23"
                 /\ gs[1].WallDuration + gs[2].WallDuration <= rec.walldur
                 \* |walldur * (1 - p) - line 1| < 1, |walldur * p - line 2| < 1
                 /\ Abs(rec.walldur * (p.d - p.n) - gs[1].WallDuration * p.d) < p.d
                 /\ Abs(rec.walldur * p.n - gs[2].WallDuration * p.d) < p.d

\* a record of wallDuration 151 split by the portion 0.4 into 90 and 60,
\* and a record of a site with portion 0 written as one line group
C8_Witness ==
    \E i, j \in 1..Len(calls) :
        /\ calls[i].ret = Rat(2, 5)
        /\ items[i][2].walldur = 151
        /\ GroupsOf(items[i][1])[1].WallDuration = 90
        /\ GroupsOf(items[i][1])[2].WallDuration = 60
        /\ calls[j].ret = RatOf(0)
        /\ Len(GroupsOf(items[j][1])) = 1

-----------------------------------------------------------------------------
\* the three operands of the fold
Operands == {args.a, args.b, args.c}

\* C2: folding Records that share a key in any order or grouping gives the
\* same merged Record: walldur, cpudur and njobs are the sums, mintime the
\* minimum, maxtime the maximum and nf the minimum of the operands' factors.
C2_AdderOrderIndependent ==
    pc = "ret" =>
      /\ result[1].walldur = args.a.walldur + args.b.walldur + args.c.walldur
      /\ result[1].cpudur = args.a.cpudur + args.b.cpudur + args.c.cpudur
      /\ result[1].njobs = args.a.njobs + args.b.njobs + args.c.njobs
      /\ \E x \in Operands :
           result[1].mintime = x.mintime /\ \A y \in Operands : x.mintime <= y.mintime
      /\ \E x \in Operands :
           result[1].maxtime = x.maxtime /\ \A y \in Operands : y.maxtime <= x.maxtime
      /\ \E x \in Operands :
           result[1].nf = x.nf /\ \A y \in Operands : RatLe(x.nf, y.nf)

\* leaves with the factors 16, 8 and 10.5, the smallest in the middle, and
\* different end times have been merged to the factor 8
C2_Witness ==
    /\ pc = "ret"
    /\ args.a.nf = RatOf(16) /\ args.b.nf = RatOf(8) /\ args.c.nf = Rat(21, 2)
    /\ args.a.mintime = 2 /\ args.c.mintime = 1
    /\ args.a.walldur = 100 /\ args.b.walldur = 50
    /\ result[1].nf = RatOf(8)

-----------------------------------------------------------------------------
\* the strictly positive observed NormalFactor values of the leaf
Positive ==
    LET p == SelectSeq(args.bkt.NormalFactor, LAMBDA b : b.key.n > 0)
    IN  [i \in 1..Len(p) |-> p[i].key]

\* q is the factor obtained from the observed values: the default, the single
\* value, or the exact mean
IsObservedFactor(q) ==
    /\ Len(Positive) = 0 => q = RatOf(12)
    /\ Len(Positive) = 1 => q = Positive[1]
    /\ Len(Positive) > 1 => RatMul(q, RatOf(Len(Positive))) = RatSum(Positive)

\* the statement of C3 as given: norm_factor returns 12 when no observed
\* value is strictly positive, the single value when exactly one is, and the
\* exact mean of the strictly positive values otherwise
C3_AsStated ==
    pc = "ret_nf" => IsObservedFactor(result[1])

\* C3 (amended): norm_factor returns 12 when no observed value is strictly
\* positive; the single strictly positive value unchanged when there is
\* exactly one and it is below 200; the exact arithmetic mean of the strictly
\* positive values when there are several and the mean is below 200.
C3_ObservedFactorBelowMax ==
    pc = "ret_nf" =>
      /\ Len(Positive) = 0 => result[1] = RatOf(12)
      /\ (Len(Positive) = 1 /\ RatLt(Positive[1], RatOf(200)))
            => result[1] = Positive[1]
      /\ (Len(Positive) > 1
          /\ RatSum(Positive).n < 200 * Len(Positive) * RatSum(Positive).d)
            => RatMul(result[1], RatOf(Len(Positive))) = RatSum(Positive)

\* the mean 9.25 of the two positive values 8 and 10.5 was returned
C3_Witness ==
    /\ pc = "ret_nf"
    /\ Len(args.bkt.NormalFactor) = 2
    /\ Positive = <<RatOf(8), Rat(21, 2)>>
    /\ result[1] = Rat(37, 4)

-----------------------------------------------------------------------------
\* the table's entry for site, 12 when it has none
TableOrDefault(site) ==
    IF site \in DOMAIN nf_table THEN nf_table[site] ELSE RatOf(12)

\* the factor obtained from the observed values
ObservedFactor ==
    IF Len(Positive) = 0 THEN RatOf(12)
    ELSE IF Len(Positive) = 1 THEN Positive[1]
    ELSE Rat(RatSum(Positive).n, RatSum(Positive).d * Len(Positive))

\* C4: when the factor obtained from the observed values (default, single
\* value or mean) is >= 200, norm_factor returns the table's entry for the
\* site it is given, 12 when the table has none, and add_record gives it the
\* canonicalized site; a factor below 200 is returned as observed, never
\* overridden by the table.
C4_ImplausibleFactorFromTable ==
    /\ pc = "ret_nf" =>
         result[1] = IF RatLe(RatOf(200), ObservedFactor)
                     THEN TableOrDefault(args.bkt.key)
                     ELSE ObservedFactor
    /\ pc = "ret_add" =>
         LET site == CanonicalSite(args.bkt.key, args.vo)
             k == [vo |-> args.vo, site |-> site, cores |-> 8, dn |-> "N/A"]
         IN  /\ DOMAIN result[1] = {k}
             /\ result[1][k].nf = IF RatLe(RatOf(200), ObservedFactor)
                                  THEN TableOrDefault(site)
                                  ELSE ObservedFactor

\* a leaf of site Crane with the observed factors 200 and 250 (mean 225) got
\* the table's entry 10.5 for Nebraska, not the entry 9 for Crane
C4_Witness ==
    /\ pc = "ret_add"
    /\ args.bkt.key = "Crane"
    /\ Positive = <<RatOf(200), RatOf(250)>>
    /\ nf_table = MainNfTable
    /\ \E k \in DOMAIN result[1] : k.site = "Nebraska" /\ result[1][k].nf = Rat(21, 2)

-----------------------------------------------------------------------------
\* C5: the site aliasing of add_record (site_map, then site_vo_map on the
\* possibly renamed site and the vo) is idempotent: applied to its own result
\* with the same vo it yields that result.
C5_AliasIdempotent ==
    pc = "twice" => result[2] = result[1]

\* MIT_CMS of lhcb was renamed to MIT_LHCb, and renamed again
C5_Witness ==
    /\ pc = "twice"
    /\ args.site = "MIT_CMS" /\ args.vo = "lhcb"
    /\ result[1] = "MIT_LHCb"

====
